---- MODULE Spec2Model ----
(***************************************************************************)
(* A model of gtrans (src/gtrans.go): one invocation of the command-line   *)
(* translator.  Go strings are modelled as sequences of one-character      *)
(* strings, so that prefix tests, index searches, slicing and escaping are *)
(* computed character by character as the code computes them.              *)
(***************************************************************************)
EXTENDS Integers, Sequences, FiniteSets, TLC

VARIABLES
    env,            \* the process environment: variable name -> value ("" when unset)
    flagTargetLang, \* the -to flag (package variable targetLang, gtrans.go:48)
    doOpenBrowser,  \* the -open flag (gtrans.go:49)
    args,           \* flag.Args(): the free-text arguments
    stdin,          \* the content the reader r delivers
    pc,             \* position of the run
    targetLang,     \* Main's / runTranslation's local targetLang
    text,           \* the request text
    client,         \* the *http.Client handed to translate.New
    err,            \* the error Main returns
    w,              \* what Main wrote to its writer w
    printed,        \* what main printed with fmt.Println(err)
    exitCode,       \* the process exit status (-1 while running)
    stdinRead,      \* ioutil.ReadAll(r) was called
    envRead,        \* names of the environment variables read so far
    detectCalls,    \* Detections.List calls issued: <<[text, client, ok, reply]>>
    translateCalls, \* Translations.List calls issued: <<[text, target, client]>>
    browserCalls,   \* openbrowser.Start calls issued: <<url>>
    trace           \* the steps of the run, in order

vars == <<env, flagTargetLang, doOpenBrowser, args, stdin, pc, targetLang, text,
          client, err, w, printed, exitCode, stdinRead, envRead, detectCalls,
          translateCalls, browserCalls, trace>>

----------------------------------------------------------------------------
(* Strings *)

\* a Go string value as the TLA+ string of its characters
RECURSIVE Flat(_)
Flat(s) == IF s = <<>> THEN "" ELSE Head(s) \o Flat(Tail(s))

\* strings.HasPrefix
HasPrefix(s, prefix) ==
    /\ Len(s) >= Len(prefix)
    /\ SubSeq(s, 1, Len(prefix)) = prefix

\* strings.Index(s, c) for a one-character c, 0-based, -1 when absent
RECURSIVE IndexFrom(_, _, _)
IndexFrom(s, c, i) ==
    IF i > Len(s) THEN -1
    ELSE IF s[i] = c THEN i - 1
    ELSE IndexFrom(s, c, i + 1)

Index(s, c) == IndexFrom(s, c, 1)

\* strings.Join(a, " ")
RECURSIVE Join(_)
Join(a) ==
    IF a = <<>> THEN <<>>
    ELSE IF Len(a) = 1 THEN a[1]
    ELSE a[1] \o <<" ">> \o Join(Tail(a))

----------------------------------------------------------------------------
(* Locale Resolver *)

zh_CN == <<"z", "h", "_", "C", "N">>
zh_SG == <<"z", "h", "_", "S", "G">>
zh_TW == <<"z", "h", "_", "T", "W">>
zh_HK == <<"z", "h", "_", "H", "K">>
zhCN  == <<"z", "h", "-", "C", "N">>
zhTW  == <<"z", "h", "-", "T", "W">>

\* a slip: Hong Kong grouped with the simplified-Chinese regions
langCodeFromLocale_HKSimplified(locale) ==
    IF HasPrefix(locale, zh_CN) \/ HasPrefix(locale, zh_SG) \/ HasPrefix(locale, zh_HK)
    THEN zhCN
    ELSE IF HasPrefix(locale, zh_TW)
    THEN zhTW
    ELSE LET i == Index(locale, "_")
         IN  IF i = -1 THEN <<>> ELSE SubSeq(locale, 1, i)

langCodeFromLocale(locale) ==
    IF HasPrefix(locale, zh_CN) \/ HasPrefix(locale, zh_SG)
    THEN zhCN
    ELSE IF HasPrefix(locale, zh_TW) \/ HasPrefix(locale, zh_HK)
    THEN zhTW
    ELSE LET i == Index(locale, "_")
         IN  IF i = -1 THEN <<>> ELSE SubSeq(locale, 1, i)

----------------------------------------------------------------------------
(* Errors *)

NoErr            == "nil"
ErrCannotDetect  == "cannot detect language. Please export $LANG or $GOOGLE_TRANSLATE_LANG (e.g. en, ja)"
ErrNoCredential  == "neither GOOGLE_TRANSLATE_API_KEY nor GOOGLE_TRANSLATE_ACCESS_TOKEN is not set"
ErrRead          == "read error"
ErrClient        == "client construction error"
ErrDetect        == "fail to call detection API"
ErrTranslate     == "fail to call translate API"
ErrOpen          == "open browser error"

----------------------------------------------------------------------------
(* Target Language Selector *)

\* the locale variables consulted, in the order of the loop at gtrans.go:187
LocaleVars == <<"LANGUAGE", "LC_ALL", "LANG">>

\* the loop of detectTargetLang over names[i..]: the first non-empty code,
\* with the names read on the way
RECURSIVE FirstLocaleCode(_, _, _, _)
FirstLocaleCode(e, names, i, read) ==
    IF i > Len(names) THEN [code |-> <<>>, err |-> ErrCannotDetect, read |-> read]
    ELSE LET code == langCodeFromLocale(e[names[i]])
         IN  IF code # <<>>
             THEN [code |-> code, err |-> NoErr, read |-> read \cup {names[i]}]
             ELSE FirstLocaleCode(e, names, i + 1, read \cup {names[i]})

\* a slip: the explicit variable is passed through the Locale Resolver too
detectTargetLang_ResolveExplicit(e) ==
    IF langCodeFromLocale(e["GOOGLE_TRANSLATE_LANG"]) # <<>>
    THEN [code |-> langCodeFromLocale(e["GOOGLE_TRANSLATE_LANG"]), err |-> NoErr,
          read |-> {"GOOGLE_TRANSLATE_LANG"}]
    ELSE FirstLocaleCode(e, LocaleVars, 1, {"GOOGLE_TRANSLATE_LANG"})

detectTargetLang(e) ==
    IF e["GOOGLE_TRANSLATE_LANG"] # <<>>
    THEN [code |-> e["GOOGLE_TRANSLATE_LANG"], err |-> NoErr,
          read |-> {"GOOGLE_TRANSLATE_LANG"}]
    ELSE FirstLocaleCode(e, LocaleVars, 1, {"GOOGLE_TRANSLATE_LANG"})

----------------------------------------------------------------------------
(* url.QueryEscape, as called at gtrans.go:122 *)

Letters == {"a", "b", "c", "d", "e", "f", "g", "h", "i", "j", "k", "l", "m",
            "n", "o", "p", "q", "r", "s", "t", "u", "v", "w", "x", "y", "z",
            "A", "B", "C", "D", "E", "F", "G", "H", "I", "J", "K", "L", "M",
            "N", "O", "P", "Q", "R", "S", "T", "U", "V", "W", "X", "Y", "Z"}
Digits == {"0", "1", "2", "3", "4", "5", "6", "7", "8", "9"}

\* the bytes QueryEscape leaves alone
Unreserved == Letters \cup Digits \cup {"-", "_", ".", "~"}

\* the upper-case hexadecimal code of the other characters the model uses
HexCode == [c \in {" ", "+", "/", "%", "&", "=", "?", "#", "\n"} |->
              CASE c = " "  -> <<"2", "0">>
                [] c = "+"  -> <<"2", "B">>
                [] c = "/"  -> <<"2", "F">>
                [] c = "%"  -> <<"2", "5">>
                [] c = "&"  -> <<"2", "6">>
                [] c = "="  -> <<"3", "D">>
                [] c = "?"  -> <<"3", "F">>
                [] c = "#"  -> <<"2", "3">>
                [] c = "\n" -> <<"0", "A">>]

\* a slip: path escaping, where a space becomes %20
RECURSIVE QueryEscape_PathStyle(_)
QueryEscape_PathStyle(s) ==
    IF s = <<>> THEN <<>>
    ELSE LET c == Head(s)
         IN  (IF c \in Unreserved THEN <<c>> ELSE <<"%">> \o HexCode[c])
             \o QueryEscape_PathStyle(Tail(s))

RECURSIVE QueryEscape(_)
QueryEscape(s) ==
    IF s = <<>> THEN <<>>
    ELSE LET c == Head(s)
         IN  (IF c = " " THEN <<"+">>
              ELSE IF c \in Unreserved THEN <<c>>
              ELSE <<"%">> \o HexCode[c])
             \o QueryEscape(Tail(s))

\* the URL openGoogleTranslate builds
TranslateURL(lang, txt) ==
    "https://translate.google.com/#auto/" \o Flat(lang) \o "/" \o Flat(QueryEscape(txt))

----------------------------------------------------------------------------
(* Pieces of Main and runTranslation *)

\* gtrans.go:106: standard input is read when the joined arguments are empty
\* a slip: standard input is read whatever the arguments are
NeedStdin_Always(joined) == TRUE

NeedStdin(joined) == joined = <<>>

\* gtrans.go:114-117
\* a slip: the translation runs in -open mode too
AfterInput_AlwaysTranslate(open) == "credentials"

AfterInput(open) == IF open THEN "open" ELSE "credentials"

\* gtrans.go:132
\* a slip: the check never fires
CredentialsMissing_Never(apiKey, accessToken) == FALSE

CredentialsMissing(apiKey, accessToken) == apiKey = <<>> /\ accessToken = <<>>

\* gtrans.go:136-145: the client handed to translate.New; ghttpOK is the
\* outcome of ghttp.NewClient
\* a slip: else-if, so that the API key wins
BuildClient_KeyWins(apiKey, accessToken, ghttpOK) ==
    IF apiKey # <<>>
    THEN IF ghttpOK THEN [client |-> "APIKey", err |-> NoErr]
                    ELSE [client |-> "nil", err |-> ErrClient]
    ELSE [client |-> IF accessToken # <<>> THEN "OAuth" ELSE "nil", err |-> NoErr]

BuildClient(apiKey, accessToken, ghttpOK) ==
    IF apiKey # <<>> /\ ~ghttpOK
    THEN [client |-> "nil", err |-> ErrClient]
    ELSE [client |-> IF accessToken # <<>> THEN "OAuth"
                     ELSE IF apiKey # <<>> THEN "APIKey"
                     ELSE "nil",
          err |-> NoErr]

\* gtrans.go:158-160
\* a slip: the swap happens whatever was detected
BounceTarget_Always(detected, target, sec) == sec

BounceTarget(detected, target, sec) == IF detected = target THEN sec ELSE target

\* gtrans.go:155-157
\* a slip: the Detect error is ignored
AfterDetect_IgnoreError(ok) == "translate"

AfterDetect(ok) == IF ok THEN "translate" ELSE "exit"

\* gtrans.go:67-70
\* a slip: the error is printed but the status stays 0
ExitStatus_AlwaysZero(e) == 0

ExitStatus(e) == IF e # NoErr THEN 1 ELSE 0

Step(name, ok) == [step |-> name, ok |-> ok]

----------------------------------------------------------------------------
(* The inputs of one invocation *)

ja == <<"j", "a">>
en == <<"e", "n">>
de == <<"d", "e">>
fr == <<"f", "r">>
JA == <<"J", "A">>
fr_FR == <<"f", "r", "_", "F", "R">>
ja_JP_UTF8 == <<"j", "a", "_", "J", "P", ".", "U", "T", "F", "-", "8">>
en_US_UTF8 == <<"e", "n", "_", "U", "S", ".", "U", "T", "F", "-", "8">>
zh_CN_UTF8 == <<"z", "h", "_", "C", "N", ".", "U", "T", "F", "-", "8">>
zh_HK_Big5 == <<"z", "h", "_", "H", "K", ".", "B", "i", "g", "5">>
hi == <<"h", "i">>
there == <<"t", "h", "e", "r", "e">>
hi_there == <<"h", "i", " ", "t", "h", "e", "r", "e">>

EnvNames == {"GOOGLE_TRANSLATE_API_KEY", "GOOGLE_TRANSLATE_ACCESS_TOKEN",
             "GOOGLE_TRANSLATE_LANG", "GOOGLE_TRANSLATE_SECOND_LANG",
             "LANGUAGE", "LC_ALL", "LANG"}

FlagValues     == {<<>>, ja, de}
ExplicitValues == {<<>>, ja, fr_FR}
LanguageValues == {<<>>, ja_JP_UTF8, fr, <<"_", "U", "S">>}
LcAllValues    == {<<>>, zh_HK_Big5, <<"C">>}
LangValues     == {<<>>, en_US_UTF8, zh_CN_UTF8}
SecondValues   == {<<>>, en, ja}
KeyValues      == {<<>>, <<"k">>}
TokenValues    == {<<>>, <<"t">>}
ArgValues      == {<<>>, << <<>> >>, <<hi, there>>, << <<"a", "+", "b", "/", "c">> >>}
StdinValues    == {<<>>, <<"o", "k", "\n">>}

\* what the detection and translation services may answer
DetectReplies    == {ja, en, JA}
TranslateReplies == {<<"T">>, <<"U", " ", "V">>}

Environments ==
    {[n \in EnvNames |->
        CASE n = "GOOGLE_TRANSLATE_API_KEY"      -> k
          [] n = "GOOGLE_TRANSLATE_ACCESS_TOKEN" -> t
          [] n = "GOOGLE_TRANSLATE_LANG"         -> g
          [] n = "GOOGLE_TRANSLATE_SECOND_LANG"  -> s
          [] n = "LANGUAGE"                      -> l1
          [] n = "LC_ALL"                        -> l2
          [] n = "LANG"                          -> l3] :
        k \in KeyValues, t \in TokenValues, g \in ExplicitValues, s \in SecondValues,
        l1 \in LanguageValues, l2 \in LcAllValues, l3 \in LangValues}

\* the state when main calls Main
Start ==
    /\ pc = "Main"
    /\ targetLang = <<>>
    /\ text = <<>>
    /\ client = "nil"
    /\ err = NoErr
    /\ w = <<>>
    /\ printed = <<>>
    /\ exitCode = -1
    /\ stdinRead = FALSE
    /\ envRead = {}
    /\ detectCalls = <<>>
    /\ translateCalls = <<>>
    /\ browserCalls = <<>>
    /\ trace = <<>>

Init ==
    /\ env \in Environments
    /\ flagTargetLang \in FlagValues
    /\ doOpenBrowser \in BOOLEAN
    /\ args \in ArgValues
    /\ stdin \in StdinValues
    /\ Start

----------------------------------------------------------------------------
(* The run *)

inputs == <<env, flagTargetLang, doOpenBrowser, args, stdin>>

\* Main, gtrans.go:97-103: the target language
MainTargetLang ==
    /\ pc = "Main"
    /\ IF flagTargetLang = <<>>
       THEN LET r == detectTargetLang(env)
            IN  /\ envRead' = envRead \cup r.read
                /\ targetLang' = r.code
                /\ err' = r.err
                /\ trace' = Append(trace, Step("target", r.err = NoErr))
                /\ pc' = IF r.err = NoErr THEN "input" ELSE "exit"
       ELSE /\ targetLang' = flagTargetLang
            /\ trace' = Append(trace, Step("target", TRUE))
            /\ pc' = "input"
            /\ UNCHANGED <<envRead, err>>
    /\ UNCHANGED <<inputs, text, client, w, printed, exitCode, stdinRead,
                   detectCalls, translateCalls, browserCalls>>

\* Main, gtrans.go:105-117: the request text, then the choice of the mode;
\* readOK is the outcome of ioutil.ReadAll(r)
MainInput ==
    /\ pc = "input"
    /\ LET joined == Join(args)
       IN  IF NeedStdin(joined)
           THEN \E readOK \in BOOLEAN :
                   /\ stdinRead' = TRUE
                   /\ trace' = Append(trace, Step("input", readOK))
                   /\ IF readOK
                      THEN /\ text' = stdin
                           /\ pc' = AfterInput(doOpenBrowser)
                           /\ err' = err
                      ELSE /\ text' = joined
                           /\ pc' = "exit"
                           /\ err' = ErrRead
           ELSE /\ text' = joined
                /\ trace' = Append(trace, Step("input", TRUE))
                /\ pc' = AfterInput(doOpenBrowser)
                /\ UNCHANGED <<stdinRead, err>>
    /\ UNCHANGED <<inputs, targetLang, client, w, printed, exitCode, envRead,
                   detectCalls, translateCalls, browserCalls>>

\* openGoogleTranslate, gtrans.go:121-124; startOK is the outcome of
\* openbrowser.Start
OpenGoogleTranslate ==
    /\ pc = "open"
    /\ \E startOK \in BOOLEAN :
          /\ browserCalls' = Append(browserCalls, TranslateURL(targetLang, text))
          /\ trace' = Append(trace, Step("open", startOK))
          /\ err' = IF startOK THEN NoErr ELSE ErrOpen
    /\ pc' = "exit"
    /\ UNCHANGED <<inputs, targetLang, text, client, w, printed, exitCode,
                   stdinRead, envRead, detectCalls, translateCalls>>

\* runTranslation, gtrans.go:127-151: the credentials and the client;
\* ghttpOK and newOK are the outcomes of ghttp.NewClient and translate.New
RunCredentials ==
    /\ pc = "credentials"
    /\ envRead' = envRead \cup {"GOOGLE_TRANSLATE_API_KEY", "GOOGLE_TRANSLATE_ACCESS_TOKEN"}
    /\ LET apiKey == env["GOOGLE_TRANSLATE_API_KEY"]
           accessToken == env["GOOGLE_TRANSLATE_ACCESS_TOKEN"]
       IN  IF CredentialsMissing(apiKey, accessToken)
           THEN /\ err' = ErrNoCredential
                /\ trace' = Append(trace, Step("credentials", FALSE))
                /\ pc' = "exit"
                /\ UNCHANGED client
           ELSE \E ghttpOK \in BOOLEAN, newOK \in BOOLEAN :
                   LET b == BuildClient(apiKey, accessToken, ghttpOK)
                   IN  IF b.err # NoErr
                       THEN /\ err' = b.err
                            /\ trace' = trace \o <<Step("credentials", TRUE),
                                                   Step("client", FALSE)>>
                            /\ pc' = "exit"
                            /\ UNCHANGED client
                       ELSE /\ client' = b.client
                            /\ trace' = trace \o <<Step("credentials", TRUE),
                                                   Step("client", newOK)>>
                            /\ err' = IF newOK THEN NoErr ELSE ErrClient
                            /\ pc' = IF newOK THEN "bounce" ELSE "exit"
    /\ UNCHANGED <<inputs, targetLang, text, w, printed, exitCode, stdinRead,
                   detectCalls, translateCalls, browserCalls>>

\* runTranslation, gtrans.go:153-161 with Detect, gtrans.go:87-94: the bounce;
\* ok and reply are the outcome of the detection call
RunBounce ==
    /\ pc = "bounce"
    /\ envRead' = envRead \cup {"GOOGLE_TRANSLATE_SECOND_LANG"}
    /\ LET sec == env["GOOGLE_TRANSLATE_SECOND_LANG"]
       IN  IF sec # <<>>
           THEN \E ok \in BOOLEAN, reply \in DetectReplies :
                   /\ detectCalls' = Append(detectCalls,
                          [text |-> text, client |-> client, ok |-> ok,
                           reply |-> IF ok THEN reply ELSE <<>>])
                   /\ trace' = Append(trace, Step("detect", ok))
                   /\ pc' = AfterDetect(ok)
                   /\ IF ok
                      THEN /\ targetLang' = BounceTarget(reply, targetLang, sec)
                           /\ err' = err
                      ELSE /\ err' = ErrDetect
                           /\ UNCHANGED targetLang
           ELSE /\ pc' = "translate"
                /\ UNCHANGED <<detectCalls, trace, targetLang, err>>
    /\ UNCHANGED <<inputs, text, client, w, printed, exitCode, stdinRead,
                   translateCalls, browserCalls>>

\* runTranslation, gtrans.go:163-168 with Translate, gtrans.go:77-85;
\* ok and reply are the outcome of the translation call
RunTranslate ==
    /\ pc = "translate"
    /\ \E ok \in BOOLEAN, reply \in TranslateReplies :
          /\ translateCalls' = Append(translateCalls,
                 [text |-> text, target |-> targetLang, client |-> client])
          /\ IF ok
             THEN /\ w' = Append(w, reply \o <<"\n">>)
                  /\ trace' = trace \o <<Step("translate", TRUE), Step("write", TRUE)>>
                  /\ UNCHANGED err
             ELSE /\ err' = ErrTranslate
                  /\ trace' = Append(trace, Step("translate", FALSE))
                  /\ UNCHANGED w
    /\ pc' = "exit"
    /\ UNCHANGED <<inputs, targetLang, text, client, printed, exitCode, stdinRead,
                   envRead, detectCalls, browserCalls>>

\* main, gtrans.go:67-70
Exit ==
    /\ pc = "exit"
    /\ exitCode' = ExitStatus(err)
    /\ printed' = IF err # NoErr THEN Append(printed, err) ELSE printed
    /\ pc' = "done"
    /\ UNCHANGED <<inputs, targetLang, text, client, err, w, stdinRead, envRead,
                   detectCalls, translateCalls, browserCalls, trace>>

Next ==
    \/ MainTargetLang
    \/ MainInput
    \/ OpenGoogleTranslate
    \/ RunCredentials
    \/ RunBounce
    \/ RunTranslate
    \/ Exit

Spec == Init /\ [][Next]_vars

----------------------------------------------------------------------------
(* The Locale Resolver on its own: langCodeFromLocale applied to every      *)
(* string over LocaleAlphabet of at most MaxLocaleLen characters, and to    *)
(* the locale values of the run above.                                      *)

MaxLocaleLen == 5

LocaleAlphabet == {"z", "h", "_", "C", "N", "T", "W"}

SampleLocales ==
    LanguageValues \cup LcAllValues \cup LangValues \cup
    {zh_CN, zh_SG, zh_TW, zh_HK, <<"z", "h", "_", "S", "G", ".", "U">>,
     <<"z", "h">>, <<"z", "h", "_">>, <<"z", "h", "_", "C">>, fr_FR}

BoundedLocales ==
    UNION {[1..n -> LocaleAlphabet] : n \in 0..MaxLocaleLen} \cup SampleLocales

InitLocale ==
    /\ \E locale \in BoundedLocales :
          env = [n \in EnvNames |-> IF n = "LANG" THEN locale ELSE <<>>]
    /\ flagTargetLang = <<>>
    /\ doOpenBrowser = FALSE
    /\ args = <<>>
    /\ stdin = <<>>
    /\ Start

\* one application of langCodeFromLocale, as in the loop body at gtrans.go:188
ResolveLocale ==
    /\ pc = "Main"
    /\ targetLang' = langCodeFromLocale(env["LANG"])
    /\ envRead' = envRead \cup {"LANG"}
    /\ pc' = "done"
    /\ UNCHANGED <<inputs, text, client, err, w, printed, exitCode, stdinRead,
                   detectCalls, translateCalls, browserCalls, trace>>

NextLocale == ResolveLocale

SpecLocale == InitLocale /\ [][NextLocale]_vars

----------------------------------------------------------------------------
(* What the properties below speak of *)

StartsWith(s, p) == Len(s) >= Len(p) /\ \A i \in 1..Len(p) : s[i] = p[i]

\* the Locale Resolver's rule set, stated on the positions of the string
ResolverRule(l) ==
    IF StartsWith(l, zh_CN) \/ StartsWith(l, zh_SG) THEN zhCN
    ELSE IF StartsWith(l, zh_TW) \/ StartsWith(l, zh_HK) THEN zhTW
    ELSE IF \E i \in 1..Len(l) : l[i] = "_"
    THEN LET first == CHOOSE i \in 1..Len(l) :
                         l[i] = "_" /\ \A j \in 1..(i - 1) : l[j] # "_"
         IN  [j \in 1..(first - 1) |-> l[j]]
    ELSE <<>>

\* the target language the selector's precedence rule names, <<>> when none
SelectorRule ==
    IF flagTargetLang # <<>> THEN flagTargetLang
    ELSE IF env["GOOGLE_TRANSLATE_LANG"] # <<>> THEN env["GOOGLE_TRANSLATE_LANG"]
    ELSE IF ResolverRule(env["LANGUAGE"]) # <<>> THEN ResolverRule(env["LANGUAGE"])
    ELSE IF ResolverRule(env["LC_ALL"]) # <<>> THEN ResolverRule(env["LC_ALL"])
    ELSE ResolverRule(env["LANG"])

StepsNamed(name) == {i \in 1..Len(trace) : trace[i].step = name}
StepDone(name)   == \E i \in 1..Len(trace) : trace[i] = Step(name, TRUE)
StepFailed(name) == \E i \in 1..Len(trace) : trace[i] = Step(name, FALSE)
SomeStepFailed   == \E i \in 1..Len(trace) : ~trace[i].ok

NoCredentials ==
    /\ env["GOOGLE_TRANSLATE_API_KEY"] = <<>>
    /\ env["GOOGLE_TRANSLATE_ACCESS_TOKEN"] = <<>>

----------------------------------------------------------------------------
(* Properties *)

\* C1: the selected target language is the -to flag when it is non-empty,
\* otherwise GOOGLE_TRANSLATE_LANG verbatim when it is non-empty, otherwise
\* the first non-empty Locale Resolver result over LANGUAGE, LC_ALL, LANG in
\* that order; the selection fails with the "cannot detect language" error
\* exactly when all of these are empty or unresolved.
C1_TargetLanguageSelection ==
    /\ pc = "input" => targetLang = SelectorRule /\ targetLang # <<>>
    /\ trace # <<>> =>
          /\ trace[1].step = "target"
          /\ trace[1].ok <=> SelectorRule # <<>>
          /\ ~trace[1].ok => err = ErrCannotDetect /\ Len(trace) = 1

C1_Witness ==
    /\ pc = "input"
    /\ flagTargetLang = <<>>
    /\ env["GOOGLE_TRANSLATE_LANG"] = <<>>
    /\ env["LANGUAGE"] = fr
    /\ env["LC_ALL"] = zh_HK_Big5
    /\ env["LANG"] = en_US_UTF8
    /\ targetLang = zhTW

\* C2: the Locale Resolver returns zh-CN for a string starting with zh_CN or
\* zh_SG, else zh-TW for one starting with zh_TW or zh_HK, else the prefix
\* before the first underscore, else the empty string; it has a result for
\* every string.
C2_LocaleResolver ==
    pc = "done" =>
        /\ targetLang = ResolverRule(env["LANG"])
        /\ env["LANG"] = en_US_UTF8 => targetLang = en
        /\ env["LANG"] = zh_CN_UTF8 => targetLang = zhCN
        /\ env["LANG"] = zh_TW => targetLang = zhTW
        /\ env["LANG"] = zh_HK_Big5 => targetLang = zhTW
        /\ env["LANG"] = fr => targetLang = <<>>
        /\ env["LANG"] = <<>> => targetLang = <<>>

C2_Witness ==
    /\ pc = "done"
    /\ env["LANG"] = zh_HK_Big5
    /\ targetLang = zhTW


\* the target language selected before the bounce
Selected == IF flagTargetLang # <<>> THEN flagTargetLang ELSE detectTargetLang(env).code

\* the target every Translate call must carry: the secondary language when
\* Detect succeeded with a reply equal to the selected target, else the
\* selected target
TranslateTargetsFollowBounce ==
    \A i \in 1..Len(translateCalls) :
        translateCalls[i].target =
            IF /\ detectCalls # <<>>
               /\ detectCalls[1].ok
               /\ detectCalls[1].reply = Selected
            THEN env["GOOGLE_TRANSLATE_SECOND_LANG"]
            ELSE Selected

\* C3 as stated: in translation mode (a finished run that entered
\* runTranslation) Detect is called if and only if
\* GOOGLE_TRANSLATE_SECOND_LANG is non-empty, and the Translate target is the
\* secondary language exactly when Detect succeeded with a reply string-equal
\* to the selected target.
C3_Original ==
    (pc = "done" /\ ~doOpenBrowser /\ StepsNamed("credentials") # {}) =>
        /\ detectCalls # <<>> <=> env["GOOGLE_TRANSLATE_SECOND_LANG"] # <<>>
        /\ TranslateTargetsFollowBounce

\* C3 amended: in translation mode Detect is called if and only if
\* GOOGLE_TRANSLATE_SECOND_LANG is non-empty and the run reached the bounce
\* step (target-language resolution, input acquisition, the credential check
\* and client construction succeeded); Detect is given the request text; the
\* Translate target is the secondary language when Detect succeeded with a
\* reply string-equal to the selected target, and the selected target
\* unchanged otherwise, also when the target came from -to.
C3_Bounce ==
    (pc = "done" /\ ~doOpenBrowser) =>
        /\ detectCalls # <<>> <=>
              (env["GOOGLE_TRANSLATE_SECOND_LANG"] # <<>> /\ StepDone("client"))
        /\ \A i \in 1..Len(detectCalls) : detectCalls[i].text = text
        /\ TranslateTargetsFollowBounce
        /\ \A i \in 1..Len(translateCalls) :
              (Selected = ja /\ env["GOOGLE_TRANSLATE_SECOND_LANG"] = en) =>
                  /\ detectCalls[1].reply = ja => translateCalls[i].target = en
                  /\ detectCalls[1].reply = JA => translateCalls[i].target = ja

C3_Witness ==
    /\ pc = "done"
    /\ flagTargetLang = ja
    /\ env["GOOGLE_TRANSLATE_SECOND_LANG"] = en
    /\ Len(detectCalls) = 1
    /\ detectCalls[1].reply = ja
    /\ Len(translateCalls) = 1
    /\ translateCalls[1].target = en

ClientsUsed ==
    {detectCalls[i].client : i \in 1..Len(detectCalls)} \cup
    {translateCalls[i].client : i \in 1..Len(translateCalls)}

\* C4 as stated: when both GOOGLE_TRANSLATE_API_KEY and
\* GOOGLE_TRANSLATE_ACCESS_TOKEN are non-empty, the client used for the
\* Detect and Translate calls is the API-key client.
C4_Original ==
    (env["GOOGLE_TRANSLATE_API_KEY"] # <<>> /\ env["GOOGLE_TRANSLATE_ACCESS_TOKEN"] # <<>>)
        => ClientsUsed \subseteq {"APIKey"}

\* C4 amended: the Detect and Translate calls of a run all use one client,
\* built from one credential form; when both variables are non-empty it is
\* the access-token client (the API-key client is built first and then
\* replaced), and the API-key client is used only when the access token is
\* empty.
C4_CredentialPriority ==
    /\ Cardinality(ClientsUsed) <= 1
    /\ ClientsUsed \subseteq
          {IF env["GOOGLE_TRANSLATE_ACCESS_TOKEN"] # <<>> THEN "OAuth" ELSE "APIKey"}
    /\ ClientsUsed # {} => ~NoCredentials

C4_Witness ==
    /\ env["GOOGLE_TRANSLATE_API_KEY"] # <<>>
    /\ env["GOOGLE_TRANSLATE_ACCESS_TOKEN"] # <<>>
    /\ Len(detectCalls) = 1
    /\ Len(translateCalls) = 1
    /\ ClientsUsed = {"OAuth"}

\* C5 as stated: without -open and with both credential variables empty, the
\* run fails with the configuration error of the credential check, no Detect
\* or Translate call is attempted and no translated text is written.
C5_Original ==
    (~doOpenBrowser /\ NoCredentials) =>
        /\ detectCalls = <<>> /\ translateCalls = <<>> /\ w = <<>>
        /\ pc = "done" => exitCode = 1 /\ err = ErrNoCredential

\* C5 amended: without -open and with both credential variables empty, the
\* run fails; it fails with the credential configuration error whenever
\* target-language resolution and input acquisition succeeded (and with that
\* earlier step's error otherwise); in every case no Detect or Translate call
\* is attempted and no translated text is written.
C5_CredentialAbsence ==
    (~doOpenBrowser /\ NoCredentials) =>
        /\ detectCalls = <<>> /\ translateCalls = <<>> /\ w = <<>>
        /\ ~StepDone("credentials") /\ ~StepDone("client")
        /\ pc = "done" =>
              /\ exitCode = 1
              /\ err # NoErr
              /\ printed = <<err>>
              /\ (StepDone("target") /\ StepDone("input")) <=> err = ErrNoCredential
              /\ StepFailed("target") <=> err = ErrCannotDetect
              /\ StepFailed("input") <=> err = ErrRead

C5_Witness ==
    /\ pc = "done"
    /\ ~doOpenBrowser
    /\ NoCredentials
    /\ StepFailed("credentials")
    /\ err = ErrNoCredential
    /\ exitCode = 1


\* the escaped form of one character of the request text, the space apart
PercentForm ==
    [c \in {"+", "/", "%", "&", "=", "?", "#", "\n"} |->
        CASE c = "+"  -> "%2B"
          [] c = "/"  -> "%2F"
          [] c = "%"  -> "%25"
          [] c = "&"  -> "%26"
          [] c = "="  -> "%3D"
          [] c = "?"  -> "%3F"
          [] c = "#"  -> "%23"
          [] c = "\n" -> "%0A"]

\* the text url-escaped, with the space written as `space`
RECURSIVE EscapedWith(_, _)
EscapedWith(t, space) ==
    IF t = <<>> THEN ""
    ELSE EscapedWith(SubSeq(t, 1, Len(t) - 1), space) \o
         (LET c == t[Len(t)]
          IN  IF c = " " THEN space
              ELSE IF c \in DOMAIN PercentForm THEN PercentForm[c]
              ELSE c)

\* the target language of an -open run: no bounce takes place
OpenURLWith(space) ==
    "https://translate.google.com/#auto/" \o Flat(targetLang) \o "/" \o EscapedWith(text, space)

\* C6 as stated: in -open mode the URL handed to the browser is
\* https://translate.google.com/#auto/{targetLang}/{url-escaped text} with a
\* space escaped as %20 (ja and "hi there" give .../#auto/ja/hi%20there).
C6_Original ==
    \A i \in 1..Len(browserCalls) :
        /\ browserCalls[i] = OpenURLWith("%20")
        /\ (targetLang = ja /\ text = hi_there) =>
              browserCalls[i] = "https://translate.google.com/#auto/ja/hi%20there"

\* C6 amended: in -open mode the URL handed to the browser is
\* https://translate.google.com/#auto/{targetLang}/{url-escaped text} with a
\* space escaped as + (ja and "hi there" give .../#auto/ja/hi+there).
C6_OpenURL ==
    /\ Len(browserCalls) <= 1
    /\ doOpenBrowser /\ pc \in {"exit", "done"} /\ StepDone("input") => Len(browserCalls) = 1
    /\ \A i \in 1..Len(browserCalls) :
          /\ browserCalls[i] = OpenURLWith("+")
          /\ (targetLang = ja /\ text = hi_there) =>
                browserCalls[i] = "https://translate.google.com/#auto/ja/hi+there"

C6_Witness ==
    /\ doOpenBrowser
    /\ targetLang = ja
    /\ text = hi_there
    /\ browserCalls = <<"https://translate.google.com/#auto/ja/hi+there">>

C8_ExitStatusAndOutput ==
    /\ Len(w) <= 1
    /\ pc = "done" =>
          /\ exitCode \in {0, 1}
          /\ exitCode = 0 <=> ~SomeStepFailed
          /\ exitCode = 1 <=> SomeStepFailed
          /\ \A name \in {"target", "input", "credentials", "client", "detect",
                          "translate", "open"} :
                StepFailed(name) => exitCode = 1 /\ printed = <<err>> /\ err # NoErr
          /\ exitCode = 0 => printed = <<>>
          /\ (exitCode = 0 /\ ~doOpenBrowser) =>
                /\ Len(w) = 1
                /\ Len(translateCalls) = 1
                /\ \E reply \in TranslateReplies : w[1] = reply \o <<"\n">>
          /\ exitCode = 1 => w = <<>>
    /\ pc # "done" => exitCode = -1

C8_Witness ==
    /\ pc = "done"
    /\ exitCode = 1
    /\ StepFailed("translate")
    /\ printed = <<ErrTranslate>>
    /\ w = <<>>

\* the arguments joined by single spaces
RECURSIVE JoinedBySpaces(_)
JoinedBySpaces(a) ==
    IF Len(a) = 0 THEN <<>>
    ELSE IF Len(a) = 1 THEN a[1]
    ELSE JoinedBySpaces(SubSeq(a, 1, Len(a) - 1)) \o <<" ">> \o a[Len(a)]

\* C9 as stated, of the runs that reach input acquisition: standard input
\* is read if and only if no free-text arguments are given; with arguments
\* the request text is the arguments joined by single spaces and standard
\* input is never read.
C9_Original ==
    StepsNamed("input") # {} =>
        /\ stdinRead <=> args = <<>>
        /\ args # <<>> => text = JoinedBySpaces(args) /\ ~stdinRead

\* C9 amended: standard input is read (in full) if and only if
\* target-language resolution succeeded and the free-text arguments joined by
\* single spaces are the empty string (no arguments, or only empty ones);
\* when the joined arguments are non-empty, the request text is the joined
\* arguments and standard input is never read.
C9_InputSource ==
    /\ pc \notin {"Main", "input"} =>
          /\ stdinRead <=> (StepDone("target") /\ JoinedBySpaces(args) = <<>>)
          /\ (StepDone("target") /\ JoinedBySpaces(args) # <<>>) =>
                text = JoinedBySpaces(args) /\ ~stdinRead
          /\ (stdinRead /\ StepDone("input")) => text = stdin
          /\ args = <<hi, there>> /\ StepDone("target") => text = hi_there
    /\ pc \in {"Main", "input"} => ~stdinRead

C9_Witness ==
    /\ pc = "done"
    /\ args = << <<>> >>
    /\ stdin # <<>>
    /\ stdinRead
    /\ text = stdin

\* the place of a step in the fixed order of a run
StepRank(name) ==
    CASE name = "target"      -> 1
      [] name = "input"       -> 2
      [] name = "open"        -> 3
      [] name = "credentials" -> 3
      [] name = "client"      -> 4
      [] name = "detect"      -> 5
      [] name = "translate"   -> 6
      [] name = "write"       -> 7

\* C10: in a translation run the steps occur in the order target-language
\* resolution, input acquisition, credential check, optional Detect,
\* Translate, write; the first failing step ends the run (a run with neither
\* target language nor credentials reports the target-language error, a failed
\* Detect is followed by no Translate call and no write); Detect and Translate
\* are each called at most once, and Translate never before Detect.
C10_StepOrder ==
    ~doOpenBrowser =>
        /\ \A i, j \in 1..Len(trace) :
              i < j => StepRank(trace[i].step) < StepRank(trace[j].step)
        /\ \A i \in 1..Len(trace) : (i < Len(trace)) => trace[i].ok
        /\ \A i \in 1..Len(trace) :
              (i > 1 /\ trace[i].step \notin {"detect", "translate"}) =>
                  StepRank(trace[i - 1].step) = StepRank(trace[i].step) - 1
        /\ \A i \in 1..Len(trace) :
              trace[i].step = "detect" => i > 1 /\ trace[i - 1].step = "client"
        /\ \A i \in 1..Len(trace) :
              trace[i].step = "translate" => i > 1 /\ trace[i - 1].step \in {"client", "detect"}
        /\ trace # <<>> => trace[1].step = "target"
        /\ Len(detectCalls) = Cardinality(StepsNamed("detect"))
        /\ Len(translateCalls) = Cardinality(StepsNamed("translate"))
        /\ Len(w) = Cardinality(StepsNamed("write"))
        /\ Len(detectCalls) <= 1 /\ Len(translateCalls) <= 1
        /\ StepFailed("detect") => translateCalls = <<>> /\ w = <<>>
        /\ SomeStepFailed => pc \in {"exit", "done"}
        /\ (pc = "done" /\ SelectorRule = <<>> /\ NoCredentials) => err = ErrCannotDetect
        /\ (pc = "done" /\ ~SomeStepFailed) => StepDone("write")

C10_Witness ==
    /\ pc = "done"
    /\ trace = <<Step("target", TRUE), Step("input", TRUE), Step("credentials", TRUE),
                 Step("client", TRUE), Step("detect", TRUE), Step("translate", TRUE),
                 Step("write", TRUE)>>

====
